---- MODULE Spec2Model ----
(***************************************************************************)
(* Model of src/src/display.rs: the SSD1322 driver `Ssd1322<DI>`.          *)
(*                                                                         *)
(* The driver owns a packed 4-bit framebuffer (`buffer`), an optional      *)
(* dirty rectangle (`bounding_box`) and a display interface (`display`).   *)
(* The display interface is the external collaborator: it receives         *)
(* commands and data payloads (WriteOnlyDataCommand) and, from draw_iter,  *)
(* update_box calls (BoundingBox).  What it receives during one operation  *)
(* is recorded in `sent` and `touched`.                                    *)
(***************************************************************************)
EXTENDS Integers, Sequences, FiniteSets

(***************************************************************************)
(* Program constants (display.rs:12-14) and numeric limits.                *)
(***************************************************************************)
DISPLAY_WIDTH == 256
DISPLAY_HEIGHT == 64
BUFFER_SIZE == (DISPLAY_WIDTH * DISPLAY_HEIGHT) \div 2

U8_MAX == 255
\* A negative i32 cast to usize wraps to a value of at least 2^31 on every
\* target whose usize has 32 bits or more.  The wrapped value is held as
\* 2^31 - 1, the largest integer TLC represents; only its order against 255
\* and 63 is ever used.
USIZE_WRAPPED == 2147483647

(***************************************************************************)
(* Bounds of the model.                                                    *)
(***************************************************************************)
MaxPixels == 2      \* longest pixel iterator handed to one draw_iter call
MaxFault == 5       \* latest transport call of one flush that may fail

(***************************************************************************)
(* Inputs.                                                                 *)
(***************************************************************************)
Px(x, y, l) == [x |-> x, y |-> y, luma |-> l]

\* Pixels drawn under Spec: three in-range pixels (first byte, both nibbles;
\* last byte, low nibble) and one pixel right of the surface.
Pixels == { Px(0, 0, 5), Px(1, 0, 3), Px(255, 63, 15), Px(256, 0, 5) }

\* Pixels drawn under SpecDraw: each way of being out of range on its own,
\* and two in-range pixels sharing a byte.
DrawPixels == { Px(256, 0, 5), Px(-1, 0, 3), Px(1, 64, 3), Px(0, -1, 5),
                Px(254, 63, 5), Px(255, 63, 3) }

Batches(P) == UNION { [1..n -> P] : n \in 0..MaxPixels }

\* Arguments of the public update_box(x: u8, y: u8).
TouchArgs == { <<0, 0>>, <<6, 1>>, <<255, 63>>, <<7, 200>> }

\* Arguments of clear(): Gray4 lumas.
ClearLumas == { 0, 15 }

Faults == 0..MaxFault

\* Under SpecDevice: pixels in bytes 0 and 129; touches giving the
\* rectangles [0,0] x [0,0], [1,1] x [1,1] and [0,1] x [0,1] (byte columns x
\* rows); how many bytes of a failing transport call still reach the
\* controller; what the controller's RAM holds before the first flush.
DevicePixels == { Px(0, 0, 5), Px(2, 1, 3) }
DeviceTouches == { <<0, 0>>, <<2, 1>> }
Parts == { 0, 1, BUFFER_SIZE }
PowerOnBytes == { 170 }

VARIABLES
    buffer,         \* Ssd1322.buffer: [u8; BUFFER_SIZE]
    bounding_box,   \* Ssd1322.bounding_box: Option<([u8; 2], [u8; 2])>
    sent,           \* transport calls the display received in the last operation
    touched,        \* update_box calls the display received in the last operation
    op,             \* the last operation
    pixels,         \* the pixel iterator of the last draw_iter (SpecDraw)
    arg,            \* the u8 arguments of the last update_box / clear
    fault,          \* which transport call of the last flush fails (0: none)
    result,         \* what the last operation returned
    history,        \* update_box calls on the driver since bounding_box was None
    device          \* the controller behind the transport (SpecDevice)

vars == <<buffer, bounding_box, sent, touched, op, pixels, arg, fault, result, history, device>>

(***************************************************************************)
(* u8 bit operations, bit by bit.                                          *)
(***************************************************************************)
RECURSIVE BitAnd(_, _)
BitAnd(a, b) ==
    IF a = 0 \/ b = 0 THEN 0
    ELSE (IF a % 2 = 1 /\ b % 2 = 1 THEN 1 ELSE 0) + 2 * BitAnd(a \div 2, b \div 2)

RECURSIVE BitOr(_, _)
BitOr(a, b) ==
    IF a = 0 THEN b
    ELSE IF b = 0 THEN a
    ELSE (IF a % 2 = 1 \/ b % 2 = 1 THEN 1 ELSE 0) + 2 * BitOr(a \div 2, b \div 2)

\* u8 << 4: the bits shifted out of the byte are dropped.
Shl4(a) == (a * 16) % (U8_MAX + 1)

(***************************************************************************)
(* Byte arrays: the framebuffer [u8; BUFFER_SIZE] and the slices of it     *)
(* handed to the transport.  An array of `len` bytes, indexed from 0, is   *)
(* held as the byte most of it has (`fill`) and the entries that differ    *)
(* from it (`diff`); no entry of `diff` equals `fill`.                     *)
(***************************************************************************)
\* [byte; n]
Filled(n, byte) == [len |-> n, fill |-> byte, diff |-> [i \in {} |-> 0]]

\* a[i]
Get(a, i) == IF i \in DOMAIN a.diff THEN a.diff[i] ELSE a.fill

\* a[i] = v
Put(a, i, v) ==
    LET d == IF v = a.fill THEN DOMAIN a.diff \ {i}
                           ELSE DOMAIN a.diff \cup {i}
    IN  [a EXCEPT !.diff = [j \in d |-> IF j = i THEN v ELSE a.diff[j]]]

\* &a[start..end]
Slice(a, start, end) ==
    LET d == {j \in DOMAIN a.diff : start <= j /\ j < end}
    IN  [len |-> end - start, fill |-> a.fill,
         diff |-> [k \in {j - start : j \in d} |-> a.diff[k + start]]]

\* a == b, byte for byte: arrays with one fill byte can differ only where
\* one of them differs from it.
SameBytes(a, b) ==
    /\ a.len = b.len
    /\ IF a.fill = b.fill
       THEN \A i \in DOMAIN a.diff \cup DOMAIN b.diff : Get(a, i) = Get(b, i)
       ELSE \A i \in 0..(a.len - 1) : Get(a, i) = Get(b, i)

(***************************************************************************)
(* Option<([u8; 2], [u8; 2])>: None is the empty sequence, Some(v) is <<v>>.*)
(***************************************************************************)
None == << >>
Some(col_addr, row_addr) == << <<col_addr, row_addr>> >>

(***************************************************************************)
(* BoundingBox::update_box for Ssd1322 (display.rs:129-155), as a function *)
(* of the current bounding_box.  Rust's col_addr[0], col_addr[1] are       *)
(* col_addr[1], col_addr[2] here.                                          *)
(***************************************************************************)
update_box_two_sided(bb, x, y) ==
    IF bb = None THEN Some(<<x \div 2, x \div 2>>, <<y, y>>)
    ELSE LET col_addr == bb[1][1]
             row_addr == bb[1][2]
             new_col_addr ==
                 IF x \div 2 < col_addr[1] THEN <<x \div 2, col_addr[2]>>
                 ELSE IF x \div 2 > col_addr[1] THEN <<col_addr[1], x \div 2>>
                 ELSE col_addr
             new_row_addr ==
                 IF y < row_addr[1] THEN <<y, row_addr[2]>>
                 ELSE IF y > row_addr[1] THEN <<row_addr[1], y>>
                 ELSE row_addr
         IN  Some(new_col_addr, new_row_addr)

update_box_drops_far_edge(bb, x, y) ==
    IF bb = None THEN Some(<<x \div 2, x \div 2>>, <<y, y>>)
    ELSE LET col_addr == bb[1][1]
             row_addr == bb[1][2]
             new_col_addr ==
                 IF x \div 2 < col_addr[1] THEN <<x \div 2, x \div 2>>
                 ELSE IF x \div 2 > col_addr[2] THEN <<col_addr[1], x \div 2>>
                 ELSE col_addr
             new_row_addr ==
                 IF y < row_addr[1] THEN <<y, row_addr[2]>>
                 ELSE IF y > row_addr[2] THEN <<row_addr[1], y>>
                 ELSE row_addr
         IN  Some(new_col_addr, new_row_addr)

update_box(bb, x, y) ==
    IF bb = None THEN Some(<<x \div 2, x \div 2>>, <<y, y>>)
    ELSE LET col_addr == bb[1][1]
             row_addr == bb[1][2]
             new_col_addr ==
                 IF x \div 2 < col_addr[1] THEN <<x \div 2, col_addr[2]>>
                 ELSE IF x \div 2 > col_addr[2] THEN <<col_addr[1], x \div 2>>
                 ELSE col_addr
             new_row_addr ==
                 IF y < row_addr[1] THEN <<y, row_addr[2]>>
                 ELSE IF y > row_addr[2] THEN <<row_addr[1], y>>
                 ELSE row_addr
         IN  Some(new_col_addr, new_row_addr)

(***************************************************************************)
(* Nibble packing (display.rs:207-215).                                    *)
(***************************************************************************)
update_upper_nibble(input, color) ==
    BitOr(BitAnd(Shl4(color), 240), BitAnd(input, 15))

update_lower_nibble_unmasked(input, color) ==
    BitOr(BitAnd(color, 15), input)

update_lower_nibble(input, color) ==
    BitOr(BitAnd(color, 15), BitAnd(input, 240))

(***************************************************************************)
(* DrawTarget::draw_iter (display.rs:161-187).                             *)
(***************************************************************************)
\* `coord.x as usize`: i32 to usize.
AsUsize_abs(v) == IF v < 0 THEN 0 - v ELSE v

AsUsize(v) == IF v < 0 THEN USIZE_WRAPPED ELSE v

\* `x as u8`: usize to u8.
AsU8(v) == v % (U8_MAX + 1)

\* One turn of the loop over the iterator (display.rs:165-184).  st holds
\* the buffer, the update_box calls made on self.display so far, and "Panic"
\* once an index past the end of the buffer has been used.
draw_pixel_always_reports(st, p) ==
    LET x == AsUsize(p.x)
        y == AsUsize(p.y)
    IN  IF st.result = "Ok" /\ x \in 0..255 /\ y \in 0..63
        THEN LET index == (x \div 2) + (y * (DISPLAY_WIDTH \div 2))
                 cur == Get(st.buffer, index)
                 new_val == IF x % 2 = 0
                            THEN update_upper_nibble(cur, p.luma)
                            ELSE update_lower_nibble(cur, p.luma)
             IN  IF index >= BUFFER_SIZE THEN [st EXCEPT !.result = "Panic"]
                 ELSE [buffer |-> Put(st.buffer, index, new_val),
                       touched |-> Append(st.touched, <<AsU8(x), AsU8(y)>>),
                       result |-> "Ok"]
        ELSE st

draw_pixel(st, p) ==
    LET x == AsUsize(p.x)
        y == AsUsize(p.y)
    IN  IF st.result = "Ok" /\ x \in 0..255 /\ y \in 0..63
        THEN LET index == (x \div 2) + (y * (DISPLAY_WIDTH \div 2))
                 cur == Get(st.buffer, index)
                 new_val == IF x % 2 = 0
                            THEN update_upper_nibble(cur, p.luma)
                            ELSE update_lower_nibble(cur, p.luma)
             IN  IF index >= BUFFER_SIZE THEN [st EXCEPT !.result = "Panic"]
                 ELSE IF new_val # cur
                 THEN \* self.display.update_box(x as u8, y as u8): the call
                      \* goes to the display interface, not to the driver.
                      [buffer |-> Put(st.buffer, index, new_val),
                       touched |-> Append(st.touched, <<AsU8(x), AsU8(y)>>),
                       result |-> "Ok"]
                 ELSE st
        ELSE st

RECURSIVE draw_iter(_, _)
draw_iter(st, ps) ==
    IF ps = << >> THEN st
    ELSE draw_iter(draw_pixel(st, Head(ps)), Tail(ps))

(***************************************************************************)
(* DrawTarget::clear (display.rs:189-195).                                 *)
(***************************************************************************)
clear_high_nibble_only(luma) == Filled(BUFFER_SIZE, Shl4(luma))

clear(luma) == Filled(BUFFER_SIZE, BitOr(Shl4(luma), luma))

(***************************************************************************)
(* The transport: WriteOnlyDataCommand as used by display.rs.  A call is   *)
(* appended to the log of the operation; the call number `f` of the        *)
(* operation returns DisplayError, every other call returns Ok.            *)
(***************************************************************************)
Command(name, params) ==
    [call |-> "send_command", cmd |-> name, params |-> params, payload |-> Filled(0, 0)]
Data(bytes) ==
    [call |-> "send_data", cmd |-> "U8", params |-> << >>, payload |-> bytes]

SetColumnAddress(a, b) == Command("SetColumnAddress", <<a, b>>)
SetRowAddress(a, b) == Command("SetRowAddress", <<a, b>>)
WriteRAM == Command("WriteRAM", << >>)

Transfer(log, c, f) == [log |-> Append(log, c), ok |-> Len(log) + 1 # f]

\* Ssd1322::send_command (display.rs:92-94).
send_command(log, command, f) == Transfer(log, command, f)

\* self.display.send_data(U8(..)) (display.rs:101, 120-121).
send_data(log, bytes, f) == Transfer(log, Data(bytes), f)

Returned(log, r) == [sent |-> log, result |-> r]

(***************************************************************************)
(* Ssd1322::flush (display.rs:97-102).                                     *)
(***************************************************************************)
flush_without_write_ram(buf, f) ==
    LET s1 == send_command(<< >>, SetColumnAddress(28, 91), f)
        s2 == send_command(s1.log, SetRowAddress(0, 63), f)
        s4 == send_data(s2.log, Slice(buf, 0, BUFFER_SIZE), f)
    IN  IF ~s1.ok THEN Returned(s1.log, "Err")
        ELSE IF ~s2.ok THEN Returned(s2.log, "Err")
        ELSE Returned(s4.log, IF s4.ok THEN "Ok" ELSE "Err")

flush_window_starts_late(buf, f) ==
    LET s1 == send_command(<< >>, SetColumnAddress(29, 91), f)
        s2 == send_command(s1.log, SetRowAddress(0, 63), f)
        s3 == send_command(s2.log, WriteRAM, f)
        s4 == send_data(s3.log, Slice(buf, 0, BUFFER_SIZE), f)
    IN  IF ~s1.ok THEN Returned(s1.log, "Err")
        ELSE IF ~s2.ok THEN Returned(s2.log, "Err")
        ELSE IF ~s3.ok THEN Returned(s3.log, "Err")
        ELSE Returned(s4.log, IF s4.ok THEN "Ok" ELSE "Err")

flush(buf, f) ==
    LET s1 == send_command(<< >>, SetColumnAddress(28, 91), f)
        s2 == send_command(s1.log, SetRowAddress(0, 63), f)
        s3 == send_command(s2.log, WriteRAM, f)
        s4 == send_data(s3.log, Slice(buf, 0, BUFFER_SIZE), f)
    IN  IF ~s1.ok THEN Returned(s1.log, "Err")
        ELSE IF ~s2.ok THEN Returned(s2.log, "Err")
        ELSE IF ~s3.ok THEN Returned(s3.log, "Err")
        ELSE Returned(s4.log, IF s4.ok THEN "Ok" ELSE "Err")

(***************************************************************************)
(* Ssd1322::flush_changed (display.rs:105-126).                            *)
(***************************************************************************)
\* The loop `for i in row_addr[0]..=row_addr[1]` from row i on
\* (display.rs:117-122).  Slicing the buffer past its end panics.
RECURSIVE send_rows_keeps_going(_, _, _, _, _, _, _)
send_rows_keeps_going(buf, col_min, num_col_bytes, i, row_max, log, f) ==
    IF i > row_max THEN Returned(log, IF f \in 1..Len(log) THEN "Err" ELSE "Ok")
    ELSE LET start_col_byte == col_min + ((i * DISPLAY_WIDTH) \div 2)
             end_col_byte == start_col_byte + num_col_bytes
         IN  IF end_col_byte > BUFFER_SIZE THEN Returned(log, "Panic")
             ELSE LET s == send_data(log, Slice(buf, start_col_byte, end_col_byte), f)
                  IN  send_rows_keeps_going(buf, col_min, num_col_bytes, i + 1, row_max, s.log, f)

RECURSIVE send_rows(_, _, _, _, _, _, _)
send_rows(buf, col_min, num_col_bytes, i, row_max, log, f) ==
    IF i > row_max THEN Returned(log, "Ok")
    ELSE LET start_col_byte == col_min + ((i * DISPLAY_WIDTH) \div 2)
             end_col_byte == start_col_byte + num_col_bytes
         IN  IF end_col_byte > BUFFER_SIZE THEN Returned(log, "Panic")
             ELSE LET s == send_data(log, Slice(buf, start_col_byte, end_col_byte), f)
                  IN  IF ~s.ok THEN Returned(s.log, "Err")
                      ELSE send_rows(buf, col_min, num_col_bytes, i + 1, row_max, s.log, f)

\* The body of `if let Some((col_addr, row_addr)) = self.bounding_box`.
flush_box(buf, col_addr, row_addr, f) ==
    LET num_col_bytes == col_addr[2] - col_addr[1] + 1
        s1 == send_command(<< >>, SetColumnAddress((col_addr[1] \div 2) + 28,
                                                    (col_addr[2] \div 2) + 28), f)
        s2 == send_command(s1.log, SetRowAddress(row_addr[1], row_addr[2]), f)
        s3 == send_command(s2.log, WriteRAM, f)
    IN  \* u8 arithmetic: col_addr[1] - col_addr[0] + 1 leaving 0..255 panics
        \* where overflow checks are on.
        IF num_col_bytes < 1 \/ num_col_bytes > U8_MAX THEN Returned(<< >>, "Panic")
        ELSE IF ~s1.ok THEN Returned(s1.log, "Err")
        ELSE IF ~s2.ok THEN Returned(s2.log, "Err")
        ELSE IF ~s3.ok THEN Returned(s3.log, "Err")
        ELSE send_rows(buf, col_addr[1], num_col_bytes, row_addr[1], row_addr[2], s3.log, f)

flush_changed_sends_when_clean(buf, bb, f) ==
    IF bb = None THEN flush(buf, f)
    ELSE flush_box(buf, bb[1][1], bb[1][2], f)

flush_changed(buf, bb, f) ==
    IF bb = None THEN Returned(<< >>, "Ok")
    ELSE flush_box(buf, bb[1][1], bb[1][2], f)

(***************************************************************************)
(* The controller's display RAM as the driver addresses it.  flush()       *)
(* (display.rs:97-102) sets the column window 0x1C..0x5B and the row       *)
(* window 0x00..0x3F and then writes the 8192-byte buffer: 64 column       *)
(* addresses hold the 128 bytes of a row, two bytes each, and written      *)
(* bytes advance through the window row by row.  `ram` mirrors the         *)
(* 64 rows x 128 bytes the buffer stands for; (prow, pbyte) is the write   *)
(* pointer: a row and a byte offset within the window's row.               *)
(***************************************************************************)
COLUMN_OFFSET == 28
COLUMN_LAST == 91
BYTES_PER_COLUMN == (DISPLAY_WIDTH \div 2) \div (COLUMN_LAST - COLUMN_OFFSET + 1)

\* The controller after init() (display.rs:66-67), its RAM holding `byte`.
PowerOn(byte) ==
    [col_start |-> COLUMN_OFFSET, col_end |-> COLUMN_LAST,
     row_start |-> 0, row_end |-> DISPLAY_HEIGHT - 1,
     prow |-> 0, pbyte |-> 0, writing |-> FALSE,
     ram |-> Filled(BUFFER_SIZE, byte)]

RowBytes(dev) == (dev.col_end - dev.col_start + 1) * BYTES_PER_COLUMN
WindowBytes(dev) == RowBytes(dev) * (dev.row_end - dev.row_start + 1)
Pointer(dev) == ((dev.prow - dev.row_start) * RowBytes(dev)) + dev.pbyte

\* The RAM index of the byte at offset o of the window.
RamIndex(dev, o) ==
    ((dev.row_start + (o \div RowBytes(dev))) * (DISPLAY_WIDTH \div 2))
        + ((dev.col_start - COLUMN_OFFSET) * BYTES_PER_COLUMN) + (o % RowBytes(dev))

\* RAM index i lies in the window, and its offset there.
InWindow(dev, i) ==
    LET row == i \div (DISPLAY_WIDTH \div 2)
        cb == i % (DISPLAY_WIDTH \div 2)
    IN  /\ dev.row_start <= row /\ row <= dev.row_end
        /\ (dev.col_start - COLUMN_OFFSET) * BYTES_PER_COLUMN <= cb
        /\ cb < (dev.col_end - COLUMN_OFFSET + 1) * BYTES_PER_COLUMN
OffsetOf(dev, i) ==
    (((i \div (DISPLAY_WIDTH \div 2)) - dev.row_start) * RowBytes(dev))
        + ((i % (DISPLAY_WIDTH \div 2)) - ((dev.col_start - COLUMN_OFFSET) * BYTES_PER_COLUMN))

\* The controller takes the n bytes of `bytes` while writing: byte k goes to
\* window offset (pointer + k) mod window size, a later byte overwriting an
\* earlier one at the same offset, and the pointer moves on by n.
WriteBytes(dev, bytes) ==
    LET n == bytes.len
        size == WindowBytes(dev)
        q == Pointer(dev)
        first == IF n > size THEN n - size ELSE 0      \* bytes before are overwritten
        \* the payload byte that ends up at RAM index i, or -1
        Source(i) ==
            IF ~InWindow(dev, i) THEN -1
            ELSE LET k == (OffsetOf(dev, i) - q) % size
                 IN  IF k >= n THEN -1 ELSE k + (size * ((n - 1 - k) \div size))
        Value(i) == IF Source(i) = -1 THEN Get(dev.ram, i) ELSE Get(bytes, Source(i))
        Target(k) == RamIndex(dev, (q + k) % size)
        all == size = BUFFER_SIZE /\ n >= size /\ \A i \in {0, BUFFER_SIZE - 1} : InWindow(dev, i)
        fill == IF all THEN bytes.fill ELSE dev.ram.fill
        cand == (IF all THEN {} ELSE DOMAIN dev.ram.diff)
                    \cup (IF bytes.fill = fill
                          THEN { Target(k) : k \in { j \in DOMAIN bytes.diff : j >= first } }
                          ELSE { Target(k) : k \in first..(n - 1) })
        kept == { i \in cand : i < BUFFER_SIZE /\ Value(i) # fill }
        end == (q + n) % size
    IN  [dev EXCEPT !.ram = [len |-> BUFFER_SIZE, fill |-> fill,
                             diff |-> [i \in kept |-> Value(i)]],
                    !.prow = dev.row_start + (end \div RowBytes(dev)),
                    !.pbyte = end % RowBytes(dev)]

\* The controller takes one transport call.
Receive(dev, c) ==
    IF c.call = "send_data"
    THEN IF dev.writing /\ c.payload.len > 0 THEN WriteBytes(dev, c.payload) ELSE dev
    ELSE IF c.cmd = "SetColumnAddress"
    THEN [dev EXCEPT !.col_start = c.params[1], !.col_end = c.params[2],
                     !.pbyte = 0, !.writing = FALSE]
    ELSE IF c.cmd = "SetRowAddress"
    THEN [dev EXCEPT !.row_start = c.params[1], !.row_end = c.params[2],
                     !.prow = c.params[1], !.writing = FALSE]
    ELSE IF c.cmd = "WriteRAM" THEN [dev EXCEPT !.writing = TRUE]
    ELSE dev

\* What reaches the controller of a call that returned DisplayError: `part`
\* bytes of a payload; a command if part > 0.
Truncated(c, part) ==
    IF c.call = "send_data"
    THEN Data(Slice(c.payload, 0, IF part < c.payload.len THEN part ELSE c.payload.len))
    ELSE c

\* The controller after the calls `calls`, of which call number f failed.
RECURSIVE Deliver(_, _, _, _, _)
Deliver(dev, calls, k, f, part) ==
    IF k > Len(calls) THEN dev
    ELSE IF k # f THEN Deliver(Receive(dev, calls[k]), calls, k + 1, f, part)
    ELSE IF calls[k].call = "send_command" /\ part = 0
         THEN Deliver(dev, calls, k + 1, f, part)
         ELSE Deliver(Receive(dev, Truncated(calls[k], part)), calls, k + 1, f, part)

(***************************************************************************)
(* The state machine: one action per public operation.                     *)
(***************************************************************************)
\* Ssd1322::new (display.rs:35-41).
Init ==
    /\ buffer = Filled(BUFFER_SIZE, 0)
    /\ bounding_box = None
    /\ sent = << >>
    /\ touched = << >>
    /\ op = "new"
    /\ pixels = << >>
    /\ arg = << >>
    /\ fault = 0
    /\ result = "Ok"
    /\ history = {}
    /\ device = PowerOn(0)

\* draw_iter(pixels), display.rs:161-187.  `seen` is what is kept of the
\* iterator for the properties: the iterator itself under SpecDraw, nothing
\* under Spec.
DrawIter(ps, seen) ==
    LET st == draw_iter([buffer |-> buffer, touched |-> << >>, result |-> "Ok"], ps)
    IN  /\ buffer' = st.buffer
        /\ touched' = st.touched
        /\ op' = "draw_iter"
        /\ pixels' = seen
        /\ arg' = << >>
        /\ fault' = 0
        /\ sent' = << >>
        /\ result' = st.result
        /\ UNCHANGED <<bounding_box, history>>

Clear_marks_all_dirty(luma) ==
    /\ buffer' = clear(luma)
    /\ bounding_box' = Some(<<0, 127>>, <<0, 63>>)
    /\ op' = "clear"
    /\ arg' = <<luma>>
    /\ pixels' = << >>
    /\ touched' = << >>
    /\ fault' = 0
    /\ sent' = << >>
    /\ result' = "Ok"
    /\ UNCHANGED history

\* clear(fill), display.rs:189-195.
Clear(luma) ==
    /\ buffer' = clear(luma)
    /\ op' = "clear"
    /\ arg' = <<luma>>
    /\ pixels' = << >>
    /\ touched' = << >>
    /\ fault' = 0
    /\ sent' = << >>
    /\ result' = "Ok"
    /\ UNCHANGED <<bounding_box, history>>

\* update_box(x, y) called on the driver, display.rs:129-155.
UpdateBox(x, y) ==
    /\ bounding_box' = update_box(bounding_box, x, y)
    /\ history' = (IF bounding_box = None THEN {} ELSE history) \cup {<<x, y>>}
    /\ op' = "update_box"
    /\ arg' = <<x, y>>
    /\ pixels' = << >>
    /\ touched' = << >>
    /\ fault' = 0
    /\ sent' = << >>
    /\ result' = "Ok"
    /\ UNCHANGED buffer

\* flush(), display.rs:97-102; the transport fails its call number f.
Flush(f) ==
    LET r == flush(buffer, f)
    IN  /\ sent' = r.sent
        /\ result' = r.result
        /\ op' = "flush"
        /\ fault' = f
        /\ arg' = << >>
        /\ pixels' = << >>
        /\ touched' = << >>
        /\ UNCHANGED <<buffer, bounding_box, history>>

FlushChanged_consumes_buffer(f) ==
    LET r == flush_changed(buffer, bounding_box, f)
    IN  /\ sent' = r.sent
        /\ result' = r.result
        /\ op' = "flush_changed"
        /\ fault' = f
        /\ arg' = << >>
        /\ pixels' = << >>
        /\ touched' = << >>
        /\ buffer' = (IF r.result = "Ok" THEN Filled(BUFFER_SIZE, 0) ELSE buffer)
        /\ UNCHANGED <<bounding_box, history>>

\* flush_changed(), display.rs:105-126; the transport fails its call number f.
FlushChanged(f) ==
    LET r == flush_changed(buffer, bounding_box, f)
    IN  /\ sent' = r.sent
        /\ result' = r.result
        /\ op' = "flush_changed"
        /\ fault' = f
        /\ arg' = << >>
        /\ pixels' = << >>
        /\ touched' = << >>
        /\ UNCHANGED <<buffer, bounding_box, history>>

\* The controller is left out of Spec and SpecDraw, and follows the
\* transport under SpecDevice.
Unobserved == UNCHANGED device
Observed(part) == device' = Deliver(device, sent', 1, fault', part)

Next ==
    \/ \E ps \in Batches(Pixels) : DrawIter(ps, << >>) /\ Unobserved
    \/ \E luma \in ClearLumas : Clear(luma) /\ Unobserved
    \/ \E t \in TouchArgs : UpdateBox(t[1], t[2]) /\ Unobserved
    \/ \E f \in Faults : Flush(f) /\ Unobserved
    \/ \E f \in Faults : FlushChanged(f) /\ Unobserved

Spec == Init /\ [][Next]_vars

\* The drawing surface alone, fed pixels that are out of range in each way.
NextDraw ==
    \/ \E ps \in Batches(DrawPixels) : DrawIter(ps, ps) /\ Unobserved
    \/ \E luma \in ClearLumas : Clear(luma) /\ Unobserved

SpecDraw == Init /\ [][NextDraw]_vars

\* The driver together with the controller: single pixel writes, touches
\* over two rows, and flushes whose failing call may reach the controller
\* in part.  The RAM does not hold the buffer's zeroes when the driver is
\* created.
InitDevice ==
    /\ buffer = Filled(BUFFER_SIZE, 0)
    /\ bounding_box = None
    /\ sent = << >>
    /\ touched = << >>
    /\ op = "new"
    /\ pixels = << >>
    /\ arg = << >>
    /\ fault = 0
    /\ result = "Ok"
    /\ history = {}
    /\ \E byte \in PowerOnBytes : device = PowerOn(byte)

NextDevice ==
    \/ \E p \in DevicePixels : DrawIter(<<p>>, << >>) /\ Unobserved
    \/ \E t \in DeviceTouches : UpdateBox(t[1], t[2]) /\ Unobserved
    \/ \E f \in Faults, part \in Parts : Flush(f) /\ Observed(part)
    \/ \E f \in Faults, part \in Parts : FlushChanged(f) /\ Observed(part)

SpecDevice == InitDevice /\ [][NextDevice]_vars

(***************************************************************************)
(* Vocabulary of the properties.                                           *)
(***************************************************************************)
Present == bounding_box # None
ColMin(bb) == bb[1][1][1]
ColMax(bb) == bb[1][1][2]
RowMin(bb) == bb[1][2][1]
RowMax(bb) == bb[1][2][2]

\* The byte column and the row of a touch (x, y) lie inside rectangle bb.
InBox(bb, t) ==
    /\ ColMin(bb) <= t[1] \div 2 /\ t[1] \div 2 <= ColMax(bb)
    /\ RowMin(bb) <= t[2] /\ t[2] <= RowMax(bb)

Least(S) == CHOOSE m \in S : \A n \in S : m <= n
Greatest(S) == CHOOSE m \in S : \A n \in S : n <= m

HighNibble(byte) == byte \div 16
LowNibble(byte) == byte % 16

\* A pixel inside the 256 x 64 surface, and the byte and nibble it lives in.
InRange(p) == 0 <= p.x /\ p.x < DISPLAY_WIDTH /\ 0 <= p.y /\ p.y < DISPLAY_HEIGHT
ByteOf(p) == (p.x \div 2) + (p.y * 128)
NibbleOf(a, p) ==
    IF p.x % 2 = 0 THEN HighNibble(Get(a, ByteOf(p))) ELSE LowNibble(Get(a, ByteOf(p)))
OtherNibbleOf(a, p) ==
    IF p.x % 2 = 0 THEN LowNibble(Get(a, ByteOf(p))) ELSE HighNibble(Get(a, ByteOf(p)))

(***************************************************************************)
(* C1.  After flush_changed() returns success from a state with a dirty    *)
(* rectangle present, the dirty rectangle is absent (so a second           *)
(* flush_changed() sends nothing).  flush_changed never assigns            *)
(* bounding_box, so the statement fails on the code.                       *)
(***************************************************************************)
C1_FlushChangedResets ==
    (op = "flush_changed" /\ result = "Ok") => bounding_box = None

(***************************************************************************)
(* C2.  From a driver whose dirty rectangle is absent, after draw_iter the *)
(* rectangle flush_changed reads is present exactly when a write changed   *)
(* a byte, and it contains the byte column and row of every such write.    *)
(* draw_iter reports to self.display, so the statement fails on the code.  *)
(***************************************************************************)
C2_DrawMarksDirty ==
    [][ (bounding_box = None /\ op' = "draw_iter") =>
            /\ (bounding_box' # None) <=> (touched' # << >>)
            /\ \A k \in 1..Len(touched') :
                   bounding_box' # None /\ InBox(bounding_box', touched'[k]) ]_vars

(***************************************************************************)
(* C3.  While the rectangle is present it equals the minimal bounding      *)
(* rectangle of the update_box touches made since it was last absent:      *)
(* col_min = min(x/2), col_max = max(x/2), row_min = min(y),               *)
(* row_max = max(y) over the history.                                      *)
(***************************************************************************)
C3_MinimalBoundingRectangle ==
    /\ Present <=> history # {}
    /\ Present =>
          LET cols == { t[1] \div 2 : t \in history }
              rows == { t[2] : t \in history }
          IN  bounding_box = Some(<<Least(cols), Greatest(cols)>>,
                                  <<Least(rows), Greatest(rows)>>)

\* Three touches, the last two inside the rectangle of the first two.
C3_Witness ==
    /\ history = { <<0, 0>>, <<6, 1>>, <<255, 63>> }
    /\ bounding_box = Some(<<0, 127>>, <<0, 63>>)
    /\ op = "update_box" /\ arg = <<6, 1>>

(***************************************************************************)
(* C4.  If a transport call fails during flush_changed(), the flush        *)
(* returns the error at once: the failed call is the last one made, the    *)
(* dirty rectangle is as it was before the call, and a flush_changed()     *)
(* retried right away makes the same calls again.                          *)
(***************************************************************************)
C4_FailedFlushChangedKeepsRectangle ==
    [][ /\ op' = "flush_changed" =>
              /\ fault' \in 1..Len(sent') => (result' = "Err" /\ Len(sent') = fault')
              /\ result' = "Err" =>
                    (fault' = Len(sent') /\ bounding_box' = bounding_box)
        /\ (op = "flush_changed" /\ result = "Err" /\ op' = "flush_changed") =>
              \A k \in 1..Len(sent) : k <= Len(sent') => sent'[k] = sent[k] ]_vars

\* The payload of the second row fails.
C4_Witness ==
    /\ op = "flush_changed" /\ result = "Err"
    /\ fault = 5 /\ Len(sent) = 5
    /\ sent[5].call = "send_data"
    /\ Present

(***************************************************************************)
(* C5.  Writing one in-range pixel (x, y, luma): afterwards the nibble of  *)
(* byte (x/2) + y*128 chosen by the parity of x (even: high, odd: low)     *)
(* equals luma, the other nibble of that byte is unchanged, and every      *)
(* other byte of the framebuffer is unchanged.                             *)
(***************************************************************************)
C5_PixelPacking ==
    [][ (op' = "draw_iter" /\ Len(pixels') = 1 /\ InRange(pixels'[1])) =>
            LET p == pixels'[1]
            IN  /\ NibbleOf(buffer', p) = p.luma
                /\ OtherNibbleOf(buffer', p) = OtherNibbleOf(buffer, p)
                /\ buffer'.len = BUFFER_SIZE
                /\ \A i \in 0..(BUFFER_SIZE - 1) :
                       i # ByteOf(p) => Get(buffer', i) = Get(buffer, i) ]_vars

\* Low nibble of the last byte written over a cleared (0xFF) buffer.
C5_Witness ==
    /\ op = "draw_iter" /\ pixels = << Px(255, 63, 3) >>
    /\ Get(buffer, 8191) = 243
    /\ touched = << <<255, 63>> >>

(***************************************************************************)
(* C6.  Writing a pixel whose luma is already stored in its nibble changes *)
(* neither the framebuffer nor the dirty rectangle and reports no touch;   *)
(* writing the same (x, y, luma) twice in one call reports at most one     *)
(* touch.                                                                  *)
(***************************************************************************)
C6_IdempotentWrite ==
    [][ op' = "draw_iter" =>
            /\ ( /\ Len(pixels') = 1
                 /\ InRange(pixels'[1])
                 /\ NibbleOf(buffer, pixels'[1]) = pixels'[1].luma ) =>
                    (buffer' = buffer /\ bounding_box' = bounding_box /\ touched' = << >>)
            /\ (Len(pixels') = 2 /\ pixels'[1] = pixels'[2]) => Len(touched') <= 1 ]_vars

\* The same pixel twice in one call: one touch.
C6_Witness ==
    /\ op = "draw_iter"
    /\ pixels = << Px(254, 63, 5), Px(254, 63, 5) >>
    /\ touched = << <<254, 63>> >>
    /\ Get(buffer, 8191) = 80

(***************************************************************************)
(* C7.  A pixel with x < 0, x >= 256, y < 0 or y >= 64 is a no-op: a call  *)
(* made of such pixels leaves the framebuffer and the dirty rectangle      *)
(* unchanged and reports no touch; the in-range pixels of the same call    *)
(* are still applied; the call returns success (no panic).                 *)
(***************************************************************************)
C7_OutOfRangeDiscarded ==
    [][ op' = "draw_iter" =>
            /\ result' = "Ok"
            /\ bounding_box' = bounding_box
            /\ (\A k \in 1..Len(pixels') : ~InRange(pixels'[k])) =>
                    (buffer' = buffer /\ touched' = << >>)
            /\ \A k \in 1..Len(pixels') :
                  ( /\ InRange(pixels'[k])
                    /\ \A j \in (k + 1)..Len(pixels') :
                          InRange(pixels'[j]) =>
                              <<pixels'[j].x, pixels'[j].y>> # <<pixels'[k].x, pixels'[k].y>> ) =>
                      NibbleOf(buffer', pixels'[k]) = pixels'[k].luma
            /\ \A k \in 1..Len(touched') :
                  \E j \in 1..Len(pixels') :
                      InRange(pixels'[j]) /\ touched'[k] = <<pixels'[j].x, pixels'[j].y>> ]_vars

\* A pixel left of the surface, then an in-range pixel that is applied.
C7_Witness ==
    /\ op = "draw_iter" /\ result = "Ok"
    /\ pixels = << Px(-1, 0, 3), Px(255, 63, 3) >>
    /\ touched = << <<255, 63>> >>
    /\ LowNibble(Get(buffer, 8191)) = 3
    /\ Get(buffer, 0) = buffer.fill

(***************************************************************************)
(* C8.  With the dirty rectangle present and a transport that never fails, *)
(* flush_changed() makes exactly these calls: a column-addressing command, *)
(* the row-addressing command (row_min, row_max), the begin-write command, *)
(* then for r = row_min..row_max in order one payload holding the bytes    *)
(* r*128+col_min .. r*128+col_max of the framebuffer; it returns success.  *)
(* A rectangle whose rows pass 63 (see C14) makes the code panic.          *)
(***************************************************************************)
C8_ChangedFlushSequence ==
    (op = "flush_changed" /\ Present /\ fault = 0) =>
        LET bb == bounding_box
            width == ColMax(bb) - ColMin(bb) + 1
        IN  /\ result = "Ok"
            /\ Len(sent) = 3 + (RowMax(bb) - RowMin(bb) + 1)
            /\ sent[1].call = "send_command" /\ sent[1].cmd = "SetColumnAddress"
            /\ sent[2] = SetRowAddress(RowMin(bb), RowMax(bb))
            /\ sent[3] = WriteRAM
            /\ \A r \in RowMin(bb)..RowMax(bb) :
                  LET c == sent[3 + (r - RowMin(bb)) + 1]
                  IN  /\ c.call = "send_data"
                      /\ c.payload.len = width
                      /\ \A k \in 0..(width - 1) :
                            Get(c.payload, k) = Get(buffer, (r * 128) + ColMin(bb) + k)

(***************************************************************************)
(* C9.  The full flush can be called in every reachable state, whether the *)
(* dirty rectangle is absent or present.  It sends the column-addressing   *)
(* command 0x1C..0x5B, the row-addressing command 0x00..0x3F, the          *)
(* begin-write command and then the whole 8192-byte framebuffer as one     *)
(* payload, in that order, stopping at the first call that fails and       *)
(* returning its error.                                                    *)
(***************************************************************************)
C9_FullFlush ==
    /\ ENABLED Flush(0)
    /\ op = "flush" =>
          LET failed == fault \in 1..4
              n == IF failed THEN fault ELSE 4
          IN  /\ Len(sent) = n
              /\ result = (IF failed THEN "Err" ELSE "Ok")
              /\ sent[1] = SetColumnAddress(28, 91)
              /\ n >= 2 => sent[2] = SetRowAddress(0, 63)
              /\ n >= 3 => sent[3] = WriteRAM
              /\ n >= 4 =>
                    /\ sent[4].call = "send_data"
                    /\ sent[4].payload.len = 8192
                    /\ \A i \in 0..8191 : Get(sent[4].payload, i) = Get(buffer, i)

\* A full flush that succeeded with a rectangle present and bytes drawn.
C9_Witness ==
    /\ op = "flush" /\ result = "Ok" /\ Len(sent) = 4
    /\ Present
    /\ Get(buffer, 0) = 83 /\ Get(sent[4].payload, 0) = 83
    /\ Get(buffer, 8191) = 15 /\ Get(sent[4].payload, 8191) = 15

(***************************************************************************)
(* C10.  flush_changed() called while the dirty rectangle is absent makes  *)
(* no transport call and returns success.                                  *)
(***************************************************************************)
C10_CleanFlushChangedIsNoOp ==
    [][ (bounding_box = None /\ op' = "flush_changed") =>
            (sent' = << >> /\ result' = "Ok") ]_vars

\* Bytes were drawn and the transport is set to fail, yet nothing is sent.
C10_Witness ==
    /\ op = "flush_changed" /\ bounding_box = None
    /\ fault = 1 /\ Get(buffer, 0) = 83
    /\ sent = << >> /\ result = "Ok"

(***************************************************************************)
(* C11.  After clear(luma) every byte of the framebuffer is                *)
(* (luma << 4) | luma, so both nibbles of every byte read back luma; the   *)
(* call returns success.                                                   *)
(***************************************************************************)
C11_ClearFillsEveryByte ==
    op = "clear" =>
        /\ result = "Ok"
        /\ buffer.len = BUFFER_SIZE
        /\ \A i \in 0..(BUFFER_SIZE - 1) :
              /\ Get(buffer, i) = (arg[1] * 16) + arg[1]
              /\ HighNibble(Get(buffer, i)) = arg[1]
              /\ LowNibble(Get(buffer, i)) = arg[1]

\* clear(15) over a buffer that had pixels drawn and a rectangle present.
C11_Witness ==
    /\ op = "clear" /\ arg = <<15>>
    /\ Get(buffer, 0) = 255 /\ Get(buffer, 8191) = 255
    /\ Present

(***************************************************************************)
(* C14.  In every state reachable through the public operations the dirty  *)
(* rectangle, when present, has col_min <= col_max <= 127 and              *)
(* row_min <= row_max <= 63, and flush_changed does not panic.             *)
(* update_box takes any u8 row, so the statement fails on the code.        *)
(***************************************************************************)
C14_RectangleWithinBuffer ==
    /\ Present =>
          /\ ColMin(bounding_box) <= ColMax(bounding_box)
          /\ ColMax(bounding_box) <= 127
          /\ RowMin(bounding_box) <= RowMax(bounding_box)
          /\ RowMax(bounding_box) <= 63
    /\ result # "Panic"

(***************************************************************************)
(* C15.  A touch while a rectangle is present yields a rectangle that      *)
(* contains the previous one, and a present rectangle becomes absent only  *)
(* in a flush that returned success: never in a pixel write, a clear, a    *)
(* touch or a failed flush.                                                *)
(***************************************************************************)
C15_RectangleLifecycle ==
    [][ /\ (Present /\ op' = "update_box") =>
              /\ bounding_box' # None
              /\ ColMin(bounding_box') <= ColMin(bounding_box)
              /\ ColMax(bounding_box') >= ColMax(bounding_box)
              /\ RowMin(bounding_box') <= RowMin(bounding_box)
              /\ RowMax(bounding_box') >= RowMax(bounding_box)
        /\ (Present /\ bounding_box' = None) =>
              (op' \in {"flush", "flush_changed"} /\ result' = "Ok") ]_vars

\* A touch left of and above the rectangle [3,3] x [1,1] widened it.
C15_Witness ==
    /\ op = "update_box" /\ arg = <<0, 0>>
    /\ history = { <<6, 1>>, <<0, 0>> }
    /\ bounding_box = Some(<<0, 3>>, <<0, 1>>)

(***************************************************************************)
(* C16.  clear(luma) leaves the dirty rectangle exactly as it was; a       *)
(* flush_changed() right after a clear() therefore sends nothing when no   *)
(* rectangle was present, and otherwise only rows of the rectangle that    *)
(* was present before the clear.                                           *)
(***************************************************************************)
C16_ClearKeepsRectangle ==
    [][ /\ op' = "clear" => bounding_box' = bounding_box
        /\ (op = "clear" /\ op' = "flush_changed") =>
              IF bounding_box = None THEN sent' = << >>
              ELSE \A k \in 1..Len(sent') :
                      sent'[k].call = "send_data" =>
                          LET r == RowMin(bounding_box) + (k - 4)
                              width == ColMax(bounding_box) - ColMin(bounding_box) + 1
                          IN  /\ k >= 4
                              /\ r <= RowMax(bounding_box)
                              /\ sent'[k].payload.len = width
                              /\ \A j \in 0..(width - 1) :
                                    Get(sent'[k].payload, j)
                                        = Get(buffer, (r * 128) + ColMin(bounding_box) + j) ]_vars

\* clear(15) with the one-byte rectangle [0,0] x [0,0] present.
C16_Witness ==
    /\ op = "clear" /\ arg = <<15>>
    /\ bounding_box = Some(<<0, 0>>, <<0, 0>>)
    /\ Get(buffer, 8191) = 255

(***************************************************************************)
(* C17.  After a full flush returns success the dirty rectangle is absent, *)
(* so a flush_changed() right after it sends nothing.  flush never assigns *)
(* bounding_box, so the statement fails on the code.                       *)
(***************************************************************************)
C17_FullFlushResets ==
    (op = "flush" /\ result = "Ok") => bounding_box = None

(***************************************************************************)
(* C18.  Neither flush operation modifies the framebuffer: after flush()   *)
(* or flush_changed(), whether it returned success, failed at any          *)
(* transport call or panicked, every byte is as it was before the call.    *)
(***************************************************************************)
C18_FlushKeepsBuffer ==
    [][ op' \in {"flush", "flush_changed"} =>
            /\ buffer'.len = buffer.len
            /\ buffer' = buffer ]_vars

\* A successful flush_changed with drawn bytes still in the buffer.
C18_Witness ==
    /\ op = "flush_changed" /\ result = "Ok" /\ Len(sent) >= 4
    /\ Get(buffer, 0) = 83 /\ Get(buffer, 8191) = 15

(***************************************************************************)
(* C12.  With the controller storing what the transport delivers: when a   *)
(* flush (full or changed) has failed and the next operation is a full     *)
(* flush that succeeds, the controller's RAM equals the framebuffer at     *)
(* every byte.                                                             *)
(***************************************************************************)
C12_FullFlushRecovers ==
    [][ ( /\ op \in {"flush", "flush_changed"} /\ result = "Err"
          /\ op' = "flush" /\ result' = "Ok" ) =>
            SameBytes(device'.ram, buffer') ]_vars

\* After a successful full flush the RAM holds the drawn bytes and the
\* zeroes around them, none of the bytes it held at first.
C12_Witness ==
    /\ op = "flush" /\ result = "Ok" /\ Present
    /\ Get(buffer, 0) = 80 /\ Get(device.ram, 0) = 80
    /\ Get(buffer, 129) = 48 /\ Get(device.ram, 129) = 48
    /\ Get(device.ram, 1) = 0 /\ Get(device.ram, 8191) = 0

(***************************************************************************)
(* C13.  After a successful flush_changed(), with two framebuffer bytes    *)
(* per column address and written data advancing through the addressed     *)
(* window, the controller's RAM equals the framebuffer at every byte of    *)
(* the dirty rectangle, and the window is as many bytes wide as a row      *)
(* payload is long.  The window is addressed in whole column addresses,    *)
(* so the statement fails on the code for an odd col_min or even col_max.  *)
(***************************************************************************)
C13_ChangedFlushReachesRam ==
    (op = "flush_changed" /\ result = "Ok" /\ Present) =>
        /\ RowBytes(device) = ColMax(bounding_box) - ColMin(bounding_box) + 1
        /\ \A r \in RowMin(bounding_box)..RowMax(bounding_box) :
              \A c \in ColMin(bounding_box)..ColMax(bounding_box) :
                  Get(device.ram, (r * 128) + c) = Get(buffer, (r * 128) + c)

====
